---- MODULE Spec2Model ----
(***************************************************************************)
(* PmLogCtl: the command line tool that shows and sets the levels of the   *)
(* logging contexts kept by PmLogLib.  One run of the tool is one step of  *)
(* the model; the registry of contexts (PmLogLib's shared state) is what   *)
(* lasts from one run to the next.                                         *)
(*                                                                         *)
(* C strings are sequences of character codes (ASCII), without the         *)
(* terminating NUL; a char buffer is a sequence of bytes that holds the    *)
(* NUL and whatever follows it.  A pointer that may be NULL is a sequence  *)
(* of length 0 (NULL) or 1 (the value pointed to).                         *)
(***************************************************************************)
EXTENDS Integers, Sequences, FiniteSets, TLC

VARIABLES
    registry,     \* PmLogLib's contexts, in PmLogGetIndContext order: [name, level]
    cmd,          \* argv[1] of the last run ("" before the first run)
    args,         \* argv[2..] of the last run
    result,       \* the Result of the last run
    exitCode,     \* the process exit status of the last run
    out,          \* the lines the last run printed
    calls,        \* the library calls of the last run that change something, in order
    snapshot,     \* contextInfos as PrvGetContextList left it in the last run
    mIn,          \* input of the match predicate: [name, junk, pattern]
    mOut          \* its result: <<>> before it ran, <<b>> after

vars == <<registry, cmd, args, result, exitCode, out, calls, snapshot, mIn, mOut>>

-----------------------------------------------------------------------------
(* Bounds of the model *)

MaxLen == 2          \* longest context name of the match predicate's inputs
MaxPatLen == 3       \* longest pattern of the match predicate's inputs
MaxJunk == 2         \* bytes left in the name buffer behind the NUL
MaxContexts == 3     \* most contexts the registry holds

-----------------------------------------------------------------------------
(* String literals *)

STAR == 42           \* '*'
NUL == 0             \* the string terminator

S_dot == <<46>>                                   \* "."
S_star == <<42>>                                  \* "*"
S_a == <<97>>                                     \* "a"
S_A == <<65>>                                     \* "A"
S_ab == <<97, 98>>                                \* "ab"
S_aStar == <<97, 42>>                             \* "a*"
S_abStar == <<97, 98, 42>>                        \* "ab*"
S_aStarB == <<97, 42, 66>>                        \* "a*B"
S_bStar == <<98, 42>>                             \* "b*"
S_none == <<110, 111, 110, 101>>                  \* "none"
S_err == <<101, 114, 114>>                        \* "err"
S_debug == <<100, 101, 98, 117, 103>>             \* "debug"
S_bogus == <<98, 111, 103, 117, 115>>             \* "bogus"
S_hi == <<104, 105>>                              \* "hi"
S_minusP == <<45, 112>>                           \* "-p"
S_minusX == <<45, 120>>                           \* "-x"
S_PmLogCtl == <<80, 109, 76, 111, 103, 67, 116, 108>>         \* "PmLogCtl"
kPmLogGlobalContextName == <<60, 103, 108, 111, 98, 97, 108, 62>>   \* "<global>"

-----------------------------------------------------------------------------
(* libc *)

RECURSIVE StrChrFrom(_, _, _)
StrChrFrom(s, c, i) ==
    IF i > Len(s) THEN 0
    ELSE IF s[i] = c THEN i
    ELSE StrChrFrom(s, c, i + 1)

\* strchr(s, c): the 1-based index of the first c in s, 0 for NULL.
StrChr(s, c) == StrChrFrom(s, c, 1)

\* The byte at 0-based offset k of a buffer; the bytes behind the modelled
\* part of the buffer are NUL (PrvGetContextList zeroes the whole snapshot).
ByteAt(buf, k) == IF k + 1 <= Len(buf) THEN buf[k + 1] ELSE NUL

\* The C string a buffer holds: the bytes before its first NUL.
CStr(buf) ==
    LET z == StrChr(buf, NUL)
    IN  IF z = 0 THEN buf ELSE SubSeq(buf, 1, z - 1)

\* strcmp(buf, s) == 0, buf a buffer and s a string
StrEq(buf, s) == CStr(buf) = s

RECURSIVE MemCmpFrom(_, _, _, _)
MemCmpFrom(buf, s, n, k) ==
    IF k >= n THEN 0
    ELSE IF ByteAt(buf, k) # s[k + 1]
         THEN (IF ByteAt(buf, k) < s[k + 1] THEN -1 ELSE 1)
    ELSE MemCmpFrom(buf, s, n, k + 1)

\* memcmp(buf, s, n): the sign of the first differing byte among the first n
\* (n <= Len(s)); it does not stop at a NUL.
MemCmp(buf, s, n) == MemCmpFrom(buf, s, n, 0)

ToLower(c) == IF c >= 65 /\ c <= 90 THEN c + 32 ELSE c

RECURSIVE StrCaseCmpFrom(_, _, _)
StrCaseCmpFrom(s1, s2, i) ==
    LET c1 == IF i <= Len(s1) THEN ToLower(s1[i]) ELSE NUL
        c2 == IF i <= Len(s2) THEN ToLower(s2[i]) ELSE NUL
    IN  IF c1 # c2 THEN c1 - c2
        ELSE IF c1 = NUL THEN 0
        ELSE StrCaseCmpFrom(s1, s2, i + 1)

\* strcasecmp(s1, s2)
StrCaseCmp(s1, s2) == StrCaseCmpFrom(s1, s2, 1)

-----------------------------------------------------------------------------
(* Name matching *)

PrvIsWildcardContextName(matchContextName) ==
    StrChr(matchContextName, STAR) # 0

\* PrvMatchContextName comparing no further than the name is long
PrvMatchContextName_ShortName(contextName, matchContextName) ==
    IF matchContextName = <<>> THEN TRUE
    ELSE LET pat == matchContextName[1]
             matchWildStr == StrChr(pat, STAR)
             matchPrefixLen == matchWildStr - 1
             nameLen == Len(CStr(contextName))
         IN  IF matchWildStr = 0
             THEN StrEq(contextName, pat)
             ELSE IF matchPrefixLen = 0 THEN TRUE
             ELSE MemCmp(contextName, pat,
                         IF nameLen < matchPrefixLen THEN nameLen ELSE matchPrefixLen) = 0

\* PrvMatchContextName taking any pattern with a '*' to match every name
PrvMatchContextName_AnyWildcard(contextName, matchContextName) ==
    IF matchContextName = <<>> THEN TRUE
    ELSE LET pat == matchContextName[1]
         IN  IF StrChr(pat, STAR) = 0 THEN StrEq(contextName, pat) ELSE TRUE

\* contextName is the name buffer of a snapshot slot; matchContextName is a
\* pointer: <<>> (NULL) or <<pattern>>.
PrvMatchContextName(contextName, matchContextName) ==
    IF matchContextName = <<>> THEN TRUE
    ELSE LET pat == matchContextName[1]
             matchWildStr == StrChr(pat, STAR)
             matchPrefixLen == matchWildStr - 1
         IN  IF matchWildStr = 0
             THEN StrEq(contextName, pat)
             ELSE IF matchPrefixLen = 0 THEN TRUE
             ELSE MemCmp(contextName, pat, matchPrefixLen) = 0

PrvResolveContextNameAlias(contextName) ==
    IF contextName = S_dot THEN kPmLogGlobalContextName ELSE contextName

-----------------------------------------------------------------------------
(* PmLogLib, as the tool uses it *)

kPmLogErr_None == "kPmLogErr_None"
kPmLogErr_Unknown == "kPmLogErr_Unknown"
kPmLogErr_Lib == "kPmLogErr_Lib"       \* any error a library call reports

RESULT_OK == "RESULT_OK"
RESULT_PARAM_ERR == "RESULT_PARAM_ERR"
RESULT_RUN_ERR == "RESULT_RUN_ERR"
RESULT_HELP == "RESULT_HELP"

EXIT_SUCCESS == "EXIT_SUCCESS"
EXIT_FAILURE == "EXIT_FAILURE"

\* The level names of PmLogStringToLevel / PmLogLevelToString.
LevelNames ==
    << <<-1, S_none>>,
       <<0, <<101, 109, 101, 114, 103>> >>,                  \* "emerg"
       <<1, <<97, 108, 101, 114, 116>> >>,                   \* "alert"
       <<2, <<99, 114, 105, 116>> >>,                        \* "crit"
       <<3, S_err>>,
       <<4, <<119, 97, 114, 110, 105, 110, 103>> >>,         \* "warning"
       <<5, <<110, 111, 116, 105, 99, 101>> >>,              \* "notice"
       <<6, <<105, 110, 102, 111>> >>,                       \* "info"
       <<7, S_debug>> >>

\* PmLogStringToLevel: a pointer to the level, NULL when the name is unknown.
PmLogStringToLevel(levelStr) ==
    LET hit == {i \in 1..Len(LevelNames) : LevelNames[i][2] = levelStr}
    IN  IF hit = {} THEN <<>> ELSE <<LevelNames[CHOOSE i \in hit : TRUE][1]>>

\* PmLogLevelToString: a pointer to the name, NULL when the level is unknown.
PmLogLevelToString(level) ==
    LET hit == {i \in 1..Len(LevelNames) : LevelNames[i][1] = level}
    IN  IF hit = {} THEN <<>> ELSE <<LevelNames[CHOOSE i \in hit : TRUE][2]>>

\* PmLogFindContext: a pointer to the context (its index), NULL when no
\* context has exactly this name.
PmLogFindContext(reg, contextName) ==
    LET hit == {i \in 1..Len(reg) : reg[i].name = contextName}
    IN  IF hit = {} THEN <<>> ELSE <<CHOOSE i \in hit : TRUE>>

\* What a library call of one run may do: all succeed, or the at-th call of
\* one kind fails.  Every failure ends the run, so one failure is all a run
\* can see.
NoFail == [kind |-> "none", at |-> 0]
Fails(lib, kind, at) == lib.kind = kind /\ lib.at = at

\* PmLogSetContextLevel on the context with index h
PmLogSetContextLevel(reg, h, level) == [reg EXCEPT ![h].level = level]

\* A call that changes something, as the run's record keeps it.
Call(op, name, level, msg, ok) ==
    [op |-> op, name |-> name, level |-> level, msg |-> msg, ok |-> ok]

-----------------------------------------------------------------------------
(* The snapshot of contexts *)

PMLOG_MAX_NUM_CONTEXTS == MaxContexts

\* contextInfos has PMLOG_MAX_NUM_CONTEXTS + 1 slots; the model keeps one
\* more, which stands for the memory right behind the array.
Capacity == PMLOG_MAX_NUM_CONTEXTS + 1

EmptySlot == [context |-> <<>>, contextName |-> <<>>]

\* memset(contextInfosP, 0, sizeof(*contextInfosP))
ZeroedInfos == [i \in 1..(Capacity + 1) |-> EmptySlot]

\* PmLogGetContextName into a name buffer: the name and its NUL; the bytes of
\* the buffer behind them stay as they were.
WriteName(buf, name) ==
    name \o <<NUL>> \o
        (IF Len(buf) > Len(name) + 1
         THEN SubSeq(buf, Len(name) + 2, Len(buf)) ELSE <<>>)

\* SortCmpContextInfoByName with strcmp for strcasecmp
SortCmpContextInfoByName_CaseSensitive(context1P, context2P) ==
    LET s1 == CStr(context1P.contextName)
        s2 == CStr(context2P.contextName)
        at(s, i) == IF i <= Len(s) THEN s[i] ELSE NUL
        differ == {i \in 1..(Len(s1) + 1) : at(s1, i) # at(s2, i)}
        first == CHOOSE i \in differ : \A j \in differ : i <= j
    IN  IF differ = {} THEN 0 ELSE at(s1, first) - at(s2, first)

SortCmpContextInfoByName(context1P, context2P) ==
    StrCaseCmp(CStr(context1P.contextName), CStr(context2P.contextName))

\* qsort of the first num slots: every order of them the comparison allows
\* (qsort is not stable: slots that compare equal may come out either way).
QSort(infos, num) ==
    LET perms == {p \in [1..num -> 1..num] :
                    \A i, j \in 1..num : i # j => p[i] # p[j]}
        sorted(p) == \A i, j \in 1..num :
                        i < j => SortCmpContextInfoByName(infos[p[i]], infos[p[j]]) <= 0
    IN  {[i \in DOMAIN infos |-> IF i <= num THEN infos[p[i]] ELSE infos[i]] :
            p \in {q \in perms : sorted(q)}}

\* The loop of PrvGetContextList from index i (0-based) on.
RECURSIVE GetContextListFrom(_, _, _, _, _, _, _)
GetContextListFrom(reg, matchContextName, lib, i, num, infos, oob) ==
    LET n == Len(reg)
        slot == num + 1
        past == oob \/ slot > Capacity
        done(err, k, inf) ==
            [logErr |-> err, numContexts |-> k, contextInfos |-> inf, oob |-> past]
    IN  IF i >= n
        THEN [logErr |-> kPmLogErr_None, numContexts |-> num,
              contextInfos |-> infos, oob |-> oob]
        ELSE IF Fails(lib, "ind", i + 1)
        THEN done(kPmLogErr_Lib, num, [infos EXCEPT ![slot].context = <<>>])
        ELSE IF Fails(lib, "name", i + 1)
        THEN done(kPmLogErr_Lib, num,
                  [infos EXCEPT ![slot].context = <<i + 1>>,
                                ![slot].contextName = WriteName(@, <<>>)])
        ELSE LET inf == [infos EXCEPT ![slot].context = <<i + 1>>,
                                      ![slot].contextName = WriteName(@, reg[i + 1].name)]
             IN  IF ~PrvMatchContextName(inf[slot].contextName, matchContextName)
                 THEN GetContextListFrom(reg, matchContextName, lib, i + 1, num, inf, past)
                 ELSE IF num >= PMLOG_MAX_NUM_CONTEXTS + 1
                 THEN done(kPmLogErr_Unknown, num, inf)
                 ELSE GetContextListFrom(reg, matchContextName, lib, i + 1, num + 1, inf, past)

\* PrvGetContextList without the test for no contexts at all
PrvGetContextList_NoEmptyCheck(reg, matchContextName, lib) ==
    LET none(err) == [logErr |-> err, numContexts |-> 0,
                      contextInfos |-> ZeroedInfos, oob |-> FALSE]
    IN  IF Fails(lib, "num", 1) THEN {none(kPmLogErr_Lib)}
        ELSE LET r == GetContextListFrom(reg, matchContextName, lib, 0, 0,
                                         ZeroedInfos, FALSE)
             IN  IF r.logErr # kPmLogErr_None THEN {r}
                 ELSE IF r.numContexts > 0
                 THEN {[r EXCEPT !.contextInfos = s] :
                          s \in QSort(r.contextInfos, r.numContexts)}
                 ELSE {r}

\* PrvGetContextList: the set of results it may return (one, but for the
\* order qsort gives names that are equal ignoring case).
PrvGetContextList(reg, matchContextName, lib) ==
    LET n == Len(reg)
        none(err) == [logErr |-> err, numContexts |-> 0,
                      contextInfos |-> ZeroedInfos, oob |-> FALSE]
    IN  IF Fails(lib, "num", 1) THEN {none(kPmLogErr_Lib)}
        ELSE IF n <= 0 THEN {none(kPmLogErr_Unknown)}
        ELSE LET r == GetContextListFrom(reg, matchContextName, lib, 0, 0,
                                         ZeroedInfos, FALSE)
             IN  IF r.logErr # kPmLogErr_None THEN {r}
                 ELSE IF r.numContexts > 0
                 THEN {[r EXCEPT !.contextInfos = s] :
                          s \in QSort(r.contextInfos, r.numContexts)}
                 ELSE {r}

\* The names of a snapshot's entries, in order
SnapshotNames(r) == [i \in 1..r.numContexts |-> CStr(r.contextInfos[i].contextName)]

NoSnapshot == [logErr |-> "", numContexts |-> 0, contextInfos |-> ZeroedInfos, oob |-> FALSE]

S_flushMsg ==                                     \* "Manually Flushing Buffers"
    <<77, 97, 110, 117, 97, 108, 108, 121, 32, 70, 108, 117, 115, 104, 105, 110, 103, 32, 66, 117, 102, 102, 101, 114, 115>>
S_loadconf ==                                     \* "!loglib loadconf"
    <<33, 108, 111, 103, 108, 105, 98, 32, 108, 111, 97, 100, 99, 111, 110, 102>>

-----------------------------------------------------------------------------
(* The commands.  Each takes argv without the program name (argv[1] of the  *)
(* C code is av[1]), the registry and what the library calls of this run    *)
(* do, and gives the set of ways the run may end: the Result, the registry, *)
(* the lines printed, the calls made and the snapshot.                      *)

Outcome(res, reg, lines, cs, snap) ==
    [result |-> res, registry |-> reg, out |-> lines, calls |-> cs, snapshot |-> snap]

Line(kind, arg, extra) == <<kind, arg, extra>>

ErrorGettingContexts == Line("Error getting contexts info", <<>>, <<>>)

ShowContext(reg, contextInfoP) ==
    LET levelStr == PmLogLevelToString(reg[contextInfoP.context[1]].level)
    IN  Line("Context", CStr(contextInfoP.contextName),
             IF levelStr = <<>> THEN <<85, 110, 107, 110, 111, 119, 110>>   \* "Unknown"
             ELSE levelStr[1])

DoCmdShow(av, reg, lib) ==
    LET argc == Len(av) + 1
        matchContextName ==
            IF argc >= 2 THEN <<PrvResolveContextNameAlias(av[1])>> ELSE <<>>
    IN  IF argc >= 3
        THEN {Outcome(RESULT_PARAM_ERR, reg,
                      <<Line("Invalid parameter", av[2], <<>>)>>, <<>>, NoSnapshot)}
        ELSE {IF contextInfos.logErr # kPmLogErr_None
              THEN Outcome(RESULT_RUN_ERR, reg, <<ErrorGettingContexts>>, <<>>, contextInfos)
              ELSE LET shown == [i \in 1..contextInfos.numContexts |->
                                    ShowContext(reg, contextInfos.contextInfos[i])]
                   IN  IF matchContextName # <<>> /\ contextInfos.numContexts = 0
                       THEN Outcome(RESULT_RUN_ERR, reg,
                                Append(shown,
                                    IF PrvIsWildcardContextName(matchContextName[1])
                                    THEN Line("No contexts matched", matchContextName[1], <<>>)
                                    ELSE Line("Context not found", matchContextName[1], <<>>)),
                                <<>>, contextInfos)
                       ELSE Outcome(RESULT_OK, reg, shown, <<>>, contextInfos)
              : contextInfos \in PrvGetContextList(reg, matchContextName, lib)}

\* The argument loop of DoCmdSet from av[i] on: the parameter error it stops
\* with, or what it parsed.
RECURSIVE SetParse(_, _, _, _, _, _)
SetParse(av, i, reg, matchContextName, matchedContext, levelIntP) ==
    IF i > Len(av)
    THEN [err |-> <<>>, matchContextName |-> matchContextName,
          matchedContext |-> matchedContext, levelIntP |-> levelIntP]
    ELSE LET arg == av[i]
             bad(line) == [err |-> <<line>>, matchContextName |-> matchContextName,
                           matchedContext |-> matchedContext, levelIntP |-> levelIntP]
         IN  IF matchContextName = <<>>
             THEN LET name == PrvResolveContextNameAlias(arg)
                      found == PmLogFindContext(reg, name)
                  IN  IF ~PrvIsWildcardContextName(name)
                      THEN IF found = <<>>
                           THEN bad(Line("Context not found", name, <<>>))
                           ELSE SetParse(av, i + 1, reg, <<name>>, found, levelIntP)
                      ELSE SetParse(av, i + 1, reg, <<name>>, matchedContext, levelIntP)
             ELSE IF levelIntP = <<>>
             THEN LET lv == PmLogStringToLevel(arg)
                  IN  IF lv = <<>>
                      THEN bad(Line("Invalid level", arg, <<>>))
                      ELSE SetParse(av, i + 1, reg, matchContextName, matchedContext, lv)
             ELSE bad(Line("Invalid parameter", arg, <<>>))

ErrorSettingLevel == Line("Error setting context log level", <<>>, <<>>)

\* The loop of DoCmdSet going on to the next context after a failure
RECURSIVE SetLoop_KeepsGoing(_, _, _, _, _, _, _)
SetLoop_KeepsGoing(reg, contextInfos, i, level, lib, lines, cs) ==
    IF i > contextInfos.numContexts
    THEN Outcome(IF \A c \in 1..Len(cs) : cs[c].ok THEN RESULT_OK ELSE RESULT_RUN_ERR,
                 reg, lines, cs, contextInfos)
    ELSE LET contextInfoP == contextInfos.contextInfos[i]
             name == CStr(contextInfoP.contextName)
             said == Append(lines, Line("Setting context level for", name, <<>>))
         IN  IF Fails(lib, "set", i)
             THEN SetLoop_KeepsGoing(reg, contextInfos, i + 1, level, lib,
                                     Append(said, ErrorSettingLevel),
                                     Append(cs, Call("set", name, level, <<>>, FALSE)))
             ELSE SetLoop_KeepsGoing(
                      PmLogSetContextLevel(reg, contextInfoP.context[1], level),
                      contextInfos, i + 1, level, lib, said,
                      Append(cs, Call("set", name, level, <<>>, TRUE)))

\* The loop of DoCmdSet over the snapshot from entry i (1-based) on.
RECURSIVE SetLoop(_, _, _, _, _, _, _)
SetLoop(reg, contextInfos, i, level, lib, lines, cs) ==
    IF i > contextInfos.numContexts
    THEN Outcome(RESULT_OK, reg, lines, cs, contextInfos)
    ELSE LET contextInfoP == contextInfos.contextInfos[i]
             name == CStr(contextInfoP.contextName)
             said == Append(lines, Line("Setting context level for", name, <<>>))
         IN  IF Fails(lib, "set", i)
             THEN Outcome(RESULT_RUN_ERR, reg, Append(said, ErrorSettingLevel),
                          Append(cs, Call("set", name, level, <<>>, FALSE)), contextInfos)
             ELSE SetLoop(PmLogSetContextLevel(reg, contextInfoP.context[1], level),
                          contextInfos, i + 1, level, lib, said,
                          Append(cs, Call("set", name, level, <<>>, TRUE)))

DoCmdSet(av, reg, lib) ==
    LET p == SetParse(av, 1, reg, <<>>, <<>>, <<>>)
        paramErr(line) == {Outcome(RESULT_PARAM_ERR, reg, <<line>>, <<>>, NoSnapshot)}
    IN  IF p.err # <<>> THEN paramErr(p.err[1])
        ELSE IF p.matchContextName = <<>>
        THEN paramErr(Line("Context not specified", <<>>, <<>>))
        ELSE IF p.levelIntP = <<>>
        THEN paramErr(Line("Level not specified", <<>>, <<>>))
        ELSE IF p.matchedContext = <<>>
        THEN {IF contextInfos.logErr # kPmLogErr_None
              THEN Outcome(RESULT_RUN_ERR, reg, <<ErrorGettingContexts>>, <<>>, contextInfos)
              ELSE IF contextInfos.numContexts = 0
              THEN Outcome(RESULT_RUN_ERR, reg,
                           <<Line("No contexts matched", p.matchContextName[1], <<>>)>>,
                           <<>>, contextInfos)
              ELSE SetLoop(reg, contextInfos, 1, p.levelIntP[1], lib, <<>>, <<>>)
              : contextInfos \in PrvGetContextList(reg, p.matchContextName, lib)}
        ELSE LET name == p.matchContextName[1]
                 said == <<Line("Setting context level for", name, <<>>)>>
             IN  IF Fails(lib, "set", 1)
                 THEN {Outcome(RESULT_RUN_ERR, reg, Append(said, ErrorSettingLevel),
                               <<Call("set", name, p.levelIntP[1], <<>>, FALSE)>>, NoSnapshot)}
                 ELSE {Outcome(RESULT_OK,
                               PmLogSetContextLevel(reg, p.matchedContext[1], p.levelIntP[1]),
                               said,
                               <<Call("set", name, p.levelIntP[1], <<>>, TRUE)>>, NoSnapshot)}

kPmLogLevel_Notice == 5
kPmLogLevel_Emergency == 0
kPmLogLevel_None == -1
kLevelNotSpecified == -999

ErrorLogging == Line("Error logging", <<>>, <<>>)

\* The argument loop of DoCmdLog taking a name with a '*' for a pattern
RECURSIVE LogParse_Wildcard(_, _, _, _, _, _)
LogParse_Wildcard(av, i, reg, contextName, levelIntP, msg) ==
    IF i > Len(av)
    THEN [err |-> <<>>, contextName |-> contextName, levelIntP |-> levelIntP, msg |-> msg]
    ELSE LET arg == av[i]
             bad(line) == [err |-> <<line>>, contextName |-> contextName,
                           levelIntP |-> levelIntP, msg |-> msg]
         IN  IF contextName = <<>>
             THEN LET name == PrvResolveContextNameAlias(arg)
                      hit == {k \in 1..Len(reg) :
                                 PrvMatchContextName(WriteName(<<>>, reg[k].name), <<name>>)}
                  IN  IF hit = {}
                      THEN bad(Line("Invalid context", arg, <<>>))
                      ELSE LogParse_Wildcard(av, i + 1, reg,
                               <<reg[CHOOSE k \in hit : TRUE].name>>, levelIntP, msg)
             ELSE IF levelIntP = <<>>
             THEN LET lv == PmLogStringToLevel(arg)
                  IN  IF lv = <<>> \/ lv = <<kPmLogLevel_None>>
                      THEN bad(Line("Invalid level", arg, <<>>))
                      ELSE LogParse_Wildcard(av, i + 1, reg, contextName, lv, msg)
             ELSE IF msg = <<>>
             THEN LogParse_Wildcard(av, i + 1, reg, contextName, levelIntP, <<arg>>)
             ELSE bad(Line("Invalid parameter", arg, <<>>))

\* The argument loop of DoCmdLog from av[i] on.
RECURSIVE LogParse(_, _, _, _, _, _)
LogParse(av, i, reg, contextName, levelIntP, msg) ==
    IF i > Len(av)
    THEN [err |-> <<>>, contextName |-> contextName, levelIntP |-> levelIntP, msg |-> msg]
    ELSE LET arg == av[i]
             bad(line) == [err |-> <<line>>, contextName |-> contextName,
                           levelIntP |-> levelIntP, msg |-> msg]
         IN  IF contextName = <<>>
             THEN LET name == PrvResolveContextNameAlias(arg)
                  IN  IF PmLogFindContext(reg, name) = <<>>
                      THEN bad(Line("Invalid context", arg, <<>>))
                      ELSE LogParse(av, i + 1, reg, <<name>>, levelIntP, msg)
             ELSE IF levelIntP = <<>>
             THEN LET lv == PmLogStringToLevel(arg)
                  IN  IF lv = <<>> \/ lv = <<kPmLogLevel_None>>
                      THEN bad(Line("Invalid level", arg, <<>>))
                      ELSE LogParse(av, i + 1, reg, contextName, lv, msg)
             ELSE IF msg = <<>>
             THEN LogParse(av, i + 1, reg, contextName, levelIntP, <<arg>>)
             ELSE bad(Line("Invalid parameter", arg, <<>>))

DoCmdLog(av, reg, lib) ==
    LET argc == Len(av) + 1
        p == IF argc = 2
             THEN LogParse(av, 1, reg, <<kPmLogGlobalContextName>>,
                           <<kPmLogLevel_Notice>>, <<>>)
             ELSE LogParse(av, 1, reg, <<>>, <<>>, <<>>)
        paramErr(line) == {Outcome(RESULT_PARAM_ERR, reg, <<line>>, <<>>, NoSnapshot)}
    IN  IF p.err # <<>> THEN paramErr(p.err[1])
        ELSE IF p.contextName = <<>>
        THEN paramErr(Line("Context not specified", <<>>, <<>>))
        ELSE IF p.levelIntP = <<>>
        THEN paramErr(Line("Level not specified", <<>>, <<>>))
        ELSE IF p.msg = <<>>
        THEN paramErr(Line("Message not specified", <<>>, <<>>))
        ELSE IF Fails(lib, "print", 1)
        THEN {Outcome(RESULT_RUN_ERR, reg, <<ErrorLogging>>,
                      <<Call("print", p.contextName[1], p.levelIntP[1], p.msg[1], FALSE)>>,
                      NoSnapshot)}
        ELSE {Outcome(RESULT_OK, reg, <<>>,
                      <<Call("print", p.contextName[1], p.levelIntP[1], p.msg[1], TRUE)>>,
                      NoSnapshot)}

\* WriteKMsg: the line "<priority>msg\n" written to /dev/kmsg, without the
\* "<priority>" when the priority is negative.
WriteKMsg(priority, msgStr, reg, lib) ==
    LET priorityStr == IF priority >= 0 THEN <<60, 48 + priority, 62>> ELSE <<>>
        text == priorityStr \o msgStr \o <<10>>
    IN  IF Fails(lib, "fopen", 1)
        THEN Outcome(RESULT_RUN_ERR, reg, <<Line("Error opening /dev/kmsg", <<>>, <<>>)>>,
                     <<>>, NoSnapshot)
        ELSE IF Fails(lib, "fprintf", 1)
        THEN Outcome(RESULT_RUN_ERR, reg, <<Line("Error writing /dev/kmsg", <<>>, <<>>)>>,
                     <<Call("kmsg", <<>>, priority, text, FALSE)>>, NoSnapshot)
        ELSE Outcome(RESULT_OK, reg, <<>>,
                     <<Call("kmsg", <<>>, priority, text, TRUE)>>, NoSnapshot)

\* The argument loop of DoCmdKLog from av[i] on.
RECURSIVE KLogParse(_, _, _, _)
KLogParse(av, i, level, msg) ==
    IF i > Len(av)
    THEN [err |-> <<>>, level |-> level, msg |-> msg]
    ELSE LET arg == av[i]
             bad(line) == [err |-> <<line>>, level |-> level, msg |-> msg]
         IN  IF ByteAt(arg, 0) = 45                        \* '-'
             THEN IF arg = S_minusP
                  THEN IF i + 1 > Len(av)
                       THEN bad(Line("Invalid parameter: -p requires value", <<>>, <<>>))
                       ELSE LET lv == PmLogStringToLevel(av[i + 1])
                            IN  IF lv = <<>>
                                THEN bad(Line("Invalid level", av[i + 1], <<>>))
                                ELSE KLogParse(av, i + 2, lv[1], msg)
                  ELSE bad(Line("Invalid parameter", arg, <<>>))
             ELSE IF msg = <<>>
             THEN KLogParse(av, i + 1, level, <<arg>>)
             ELSE bad(Line("Invalid parameter", arg, <<>>))

DoCmdKLog(av, reg, lib) ==
    LET p == KLogParse(av, 1, kPmLogLevel_Notice, <<>>)
    IN  IF p.err # <<>>
        THEN {Outcome(RESULT_PARAM_ERR, reg, <<p.err[1]>>, <<>>, NoSnapshot)}
        ELSE IF p.msg = <<>>
        THEN {Outcome(RESULT_PARAM_ERR, reg,
                      <<Line("Message not specified", <<>>, <<>>)>>, <<>>, NoSnapshot)}
        ELSE {WriteKMsg(p.level, p.msg[1], reg, lib)}

DoCmdFlush(av, reg, lib) ==
    IF PmLogFindContext(reg, S_PmLogCtl) = <<>>
    THEN {Outcome(RESULT_RUN_ERR, reg,
                  <<Line("Error getting context PmLogCtl", <<>>, <<>>)>>, <<>>, NoSnapshot)}
    ELSE IF Fails(lib, "print", 1)
    THEN {Outcome(RESULT_RUN_ERR, reg, <<ErrorLogging>>,
                  <<Call("print", S_PmLogCtl, kPmLogLevel_Emergency, S_flushMsg, FALSE)>>,
                  NoSnapshot)}
    ELSE {Outcome(RESULT_OK, reg, <<>>,
                  <<Call("print", S_PmLogCtl, kPmLogLevel_Emergency, S_flushMsg, TRUE)>>,
                  NoSnapshot)}

\* DoCmdReConf sending the message before it looks at its arguments
DoCmdReConf_ActsFirst(av, reg, lib) ==
    LET sent(ok) == <<Call("print", kPmLogGlobalContextName, kPmLogLevel_Emergency,
                           S_loadconf, ok)>>
    IN  IF Fails(lib, "print", 1)
        THEN {Outcome(RESULT_RUN_ERR, reg, <<ErrorLogging>>, sent(FALSE), NoSnapshot)}
        ELSE IF 1 <= Len(av)
        THEN {Outcome(RESULT_PARAM_ERR, reg, <<Line("Invalid parameter", av[1], <<>>)>>,
                      sent(TRUE), NoSnapshot)}
        ELSE {Outcome(RESULT_OK, reg, <<>>, sent(TRUE), NoSnapshot)}

DoCmdReConf(av, reg, lib) ==
    IF 1 <= Len(av)
    THEN {Outcome(RESULT_PARAM_ERR, reg, <<Line("Invalid parameter", av[1], <<>>)>>,
                  <<>>, NoSnapshot)}
    ELSE IF Fails(lib, "print", 1)
    THEN {Outcome(RESULT_RUN_ERR, reg, <<ErrorLogging>>,
                  <<Call("print", kPmLogGlobalContextName, kPmLogLevel_Emergency,
                         S_loadconf, FALSE)>>, NoSnapshot)}
    ELSE {Outcome(RESULT_OK, reg, <<>>,
                  <<Call("print", kPmLogGlobalContextName, kPmLogLevel_Emergency,
                         S_loadconf, TRUE)>>, NoSnapshot)}

\* The levels PmLogLib may give a context it creates.
NewContextLevels == {kPmLogLevel_None, 3}

\* The names PmLogLib takes for a context: 1 or more characters, each of
\* A-Z, a-z, 0-9, '_', '-', '.'.
ValidContextName(contextName) ==
    /\ Len(contextName) >= 1
    /\ \A i \in 1..Len(contextName) :
          LET c == contextName[i]
          IN  \/ c \in 65..90 \/ c \in 97..122 \/ c \in 48..57
              \/ c \in {95, 45, 46}

\* PmLogGetContext: the context of this name, created when there is none.
\* The library refuses a name that is not valid (one with a '*', say), and a
\* new context when the registry is full.
PmLogGetContext(reg, contextName, lib) ==
    LET found == PmLogFindContext(reg, contextName)
    IN  IF Fails(lib, "get", 1) \/ ~ValidContextName(contextName)
        THEN {[logErr |-> kPmLogErr_Lib, registry |-> reg, context |-> <<>>]}
        ELSE IF found # <<>>
        THEN {[logErr |-> kPmLogErr_None, registry |-> reg, context |-> found]}
        ELSE IF Len(reg) >= PMLOG_MAX_NUM_CONTEXTS
        THEN {[logErr |-> kPmLogErr_Lib, registry |-> reg, context |-> <<>>]}
        ELSE {[logErr |-> kPmLogErr_None,
               registry |-> Append(reg, [name |-> contextName, level |-> lv]),
               context |-> <<Len(reg) + 1>>] : lv \in NewContextLevels}

\* The argument loop of DoCmdDef parsing the level and not keeping it
RECURSIVE DefParse_DropsLevel(_, _, _, _, _, _)
DefParse_DropsLevel(av, i, reg, contextName, levelIntP, level) ==
    IF i > Len(av)
    THEN [err |-> <<>>, contextName |-> contextName, level |-> level]
    ELSE LET arg == av[i]
             bad(line) == [err |-> <<line>>, contextName |-> contextName, level |-> level]
         IN  IF contextName = <<>>
             THEN LET name == PrvResolveContextNameAlias(arg)
                  IN  IF PmLogFindContext(reg, name) # <<>>
                      THEN bad(Line("Context is already defined", name, <<>>))
                      ELSE DefParse_DropsLevel(av, i + 1, reg, <<name>>, levelIntP, level)
             ELSE IF levelIntP = <<>>
             THEN LET lv == PmLogStringToLevel(arg)
                  IN  IF lv = <<>>
                      THEN bad(Line("Invalid level", arg, <<>>))
                      ELSE DefParse_DropsLevel(av, i + 1, reg, contextName, lv, level)
             ELSE bad(Line("Invalid parameter", arg, <<>>))

\* The argument loop of DoCmdDef without the test for a context of that name
RECURSIVE DefParse_NoExistCheck(_, _, _, _, _, _)
DefParse_NoExistCheck(av, i, reg, contextName, levelIntP, level) ==
    IF i > Len(av)
    THEN [err |-> <<>>, contextName |-> contextName, level |-> level]
    ELSE LET arg == av[i]
             bad(line) == [err |-> <<line>>, contextName |-> contextName, level |-> level]
         IN  IF contextName = <<>>
             THEN DefParse_NoExistCheck(av, i + 1, reg,
                      <<PrvResolveContextNameAlias(arg)>>, levelIntP, level)
             ELSE IF levelIntP = <<>>
             THEN LET lv == PmLogStringToLevel(arg)
                  IN  IF lv = <<>>
                      THEN bad(Line("Invalid level", arg, <<>>))
                      ELSE DefParse_NoExistCheck(av, i + 1, reg, contextName, lv, lv[1])
             ELSE bad(Line("Invalid parameter", arg, <<>>))

\* The argument loop of DoCmdDef from av[i] on.
RECURSIVE DefParse(_, _, _, _, _, _)
DefParse(av, i, reg, contextName, levelIntP, level) ==
    IF i > Len(av)
    THEN [err |-> <<>>, contextName |-> contextName, level |-> level]
    ELSE LET arg == av[i]
             bad(line) == [err |-> <<line>>, contextName |-> contextName, level |-> level]
         IN  IF contextName = <<>>
             THEN LET name == PrvResolveContextNameAlias(arg)
                  IN  IF PmLogFindContext(reg, name) # <<>>
                      THEN bad(Line("Context is already defined", name, <<>>))
                      ELSE DefParse(av, i + 1, reg, <<name>>, levelIntP, level)
             ELSE IF levelIntP = <<>>
             THEN LET lv == PmLogStringToLevel(arg)
                  IN  IF lv = <<>>
                      THEN bad(Line("Invalid level", arg, <<>>))
                      ELSE DefParse(av, i + 1, reg, contextName, lv, lv[1])
             ELSE bad(Line("Invalid parameter", arg, <<>>))

DoCmdDef(av, reg, lib) ==
    LET p == DefParse(av, 1, reg, <<>>, <<>>, kLevelNotSpecified)
    IN  IF p.err # <<>>
        THEN {Outcome(RESULT_PARAM_ERR, reg, <<p.err[1]>>, <<>>, NoSnapshot)}
        ELSE IF p.contextName = <<>>
        THEN {Outcome(RESULT_PARAM_ERR, reg,
                      <<Line("Context not specified", <<>>, <<>>)>>, <<>>, NoSnapshot)}
        ELSE {LET name == p.contextName[1]
                  got == Call("get", name, 0, <<>>, g.logErr = kPmLogErr_None)
              IN  IF g.logErr # kPmLogErr_None
                  THEN Outcome(RESULT_RUN_ERR, g.registry,
                               <<Line("Error defining context", <<>>, <<>>)>>,
                               <<got>>, NoSnapshot)
                  ELSE IF p.level # kLevelNotSpecified
                  THEN IF Fails(lib, "set", 1)
                       THEN Outcome(RESULT_RUN_ERR, g.registry, <<ErrorSettingLevel>>,
                                    <<got, Call("set", name, p.level, <<>>, FALSE)>>,
                                    NoSnapshot)
                       ELSE Outcome(RESULT_OK,
                                    PmLogSetContextLevel(g.registry, g.context[1], p.level),
                                    <<>>,
                                    <<got, Call("set", name, p.level, <<>>, TRUE)>>,
                                    NoSnapshot)
                  ELSE Outcome(RESULT_OK, g.registry, <<>>, <<got>>, NoSnapshot)
              : g \in PmLogGetContext(reg, p.contextName[1], lib)}

ShowUsage == <<Line("PmLogCtl COMMAND [PARAM...]", <<>>, <<>>)>>

SuggestHelp == Line("Use -help for usage information.", <<>>, <<>>)

\* The exit status main gives exit() for a Result.
ExitStatus(res) == IF res = RESULT_OK THEN EXIT_SUCCESS ELSE EXIT_FAILURE

-----------------------------------------------------------------------------
(* The command lines and the library behaviours the model tries *)

Patterns == {S_dot, S_star, S_a, S_A, S_ab, S_PmLogCtl,
             S_aStar, S_abStar, S_aStarB, S_bStar}
DefNames == {S_dot, S_a, S_A, S_ab, S_PmLogCtl, S_aStar}
LogNames == {S_dot, S_a, S_ab, S_aStar}
LevelArgs == {S_err, S_none, S_bogus}

ShowArgv == {<<>>} \cup {<<p>> : p \in Patterns} \cup {<<S_a, S_hi>>}

SetArgv ==
    {<<>>} \cup {<<p>> : p \in Patterns}
        \cup {<<p, l>> : p \in Patterns, l \in LevelArgs}
        \cup {<<p, l, S_hi>> : p \in {S_a, S_star, S_bStar}, l \in LevelArgs}

LogArgv ==
    {<<>>, <<S_hi>>} \cup {<<n, l>> : n \in LogNames, l \in LevelArgs}
        \cup {<<n, l, S_hi>> : n \in LogNames, l \in LevelArgs}
        \cup {<<n, l, S_hi, S_hi>> : n \in LogNames, l \in LevelArgs}

KLogWords == {S_minusP, S_err, S_bogus, S_hi}
KLogArgv ==
    {<<>>, <<S_minusX, S_hi>>, <<S_minusP, S_none, S_hi>>}
        \cup {<<a>> : a \in KLogWords}
        \cup {<<a, b>> : a \in KLogWords, b \in KLogWords}
        \cup {<<a, b, c>> : a \in KLogWords, b \in KLogWords, c \in KLogWords}

DefArgv ==
    {<<>>} \cup {<<n>> : n \in DefNames}
        \cup {<<n, l>> : n \in DefNames, l \in LevelArgs}
        \cup {<<n, l, S_hi>> : n \in {S_a, S_dot}, l \in LevelArgs}

Failure(kind, ats) == {[kind |-> kind, at |-> k] : k \in ats}

EnumFailures ==
    {NoFail} \cup Failure("num", {1})
        \cup Failure("ind", 1..MaxContexts) \cup Failure("name", 1..MaxContexts)
SetFailures == EnumFailures \cup Failure("set", 1..MaxContexts)
DefFailures == {NoFail} \cup Failure("get", {1}) \cup Failure("set", {1})
PrintFailures == {NoFail} \cup Failure("print", {1})
KMsgFailures == {NoFail} \cup Failure("fopen", {1}) \cup Failure("fprintf", {1})

-----------------------------------------------------------------------------
(* main: one run of the tool *)

NoMatchInput == [name |-> <<>>, junk |-> <<>>, pattern |-> <<>>]

\* Before the first run the registry holds the global context, or nothing at
\* all (a library that reports no context, the case n <= 0 of
\* PrvGetContextList).
Init ==
    /\ registry \in {<<>>, <<[name |-> kPmLogGlobalContextName, level |-> 3]>>}
    /\ cmd = ""
    /\ args = <<>>
    /\ result = ""
    /\ exitCode = ""
    /\ out = <<>>
    /\ calls = <<>>
    /\ snapshot = NoSnapshot
    /\ mIn = NoMatchInput
    /\ mOut = <<>>

\* The tool runs once per invocation: a run starts when the one before it
\* is gone.
Idle == result = ""

\* The end of main for a command that ended as o.
Run(c, av, o) ==
    /\ cmd' = c
    /\ args' = av
    /\ registry' = o.registry
    /\ result' = o.result
    /\ out' = IF o.result = RESULT_PARAM_ERR THEN Append(o.out, SuggestHelp) ELSE o.out
    /\ exitCode' = ExitStatus(o.result)
    /\ calls' = o.calls
    /\ snapshot' = o.snapshot
    /\ UNCHANGED <<mIn, mOut>>

NoCommand ==
    /\ Idle
    /\ Run("", <<>>, Outcome(RESULT_PARAM_ERR, registry,
                             <<Line("No command specified", <<>>, <<>>)>>, <<>>, NoSnapshot))

CmdDef ==
    /\ Idle
    /\ \E av \in DefArgv, lib \in DefFailures :
           \E o \in DoCmdDef(av, registry, lib) : Run("def", av, o)

CmdLog ==
    /\ Idle
    /\ \E av \in LogArgv, lib \in PrintFailures :
           \E o \in DoCmdLog(av, registry, lib) : Run("log", av, o)

CmdKLog ==
    /\ Idle
    /\ \E av \in KLogArgv, lib \in KMsgFailures :
           \E o \in DoCmdKLog(av, registry, lib) : Run("klog", av, o)

CmdReConf ==
    /\ Idle
    /\ \E av \in {<<>>, <<S_hi>>}, lib \in PrintFailures :
           \E o \in DoCmdReConf(av, registry, lib) : Run("reconf", av, o)

CmdSet ==
    /\ Idle
    /\ \E av \in SetArgv, lib \in SetFailures :
           \E o \in DoCmdSet(av, registry, lib) : Run("set", av, o)

CmdShow ==
    /\ Idle
    /\ \E av \in ShowArgv, lib \in EnumFailures :
           \E o \in DoCmdShow(av, registry, lib) : Run("show", av, o)

CmdFlush ==
    /\ Idle
    /\ \E lib \in PrintFailures :
           \E o \in DoCmdFlush(<<>>, registry, lib) : Run("flush", <<>>, o)

CmdHelp ==
    /\ Idle
    /\ \E c \in {"help", "-help"}, av \in {<<>>, <<S_hi>>} :
           Run(c, av, Outcome(RESULT_HELP, registry, ShowUsage, <<>>, NoSnapshot))

CmdInvalid ==
    /\ Idle
    /\ \E c \in {"bogus"}, av \in {<<>>, <<S_hi>>} :
           Run(c, av, Outcome(RESULT_PARAM_ERR, registry,
                              <<Line("Invalid command", <<>>, <<>>)>>, <<>>, NoSnapshot))

\* The process is gone: nothing of the run is left but the registry.
Exit ==
    /\ result # ""
    /\ cmd' = ""
    /\ args' = <<>>
    /\ result' = ""
    /\ exitCode' = ""
    /\ out' = <<>>
    /\ calls' = <<>>
    /\ snapshot' = NoSnapshot
    /\ UNCHANGED <<registry, mIn, mOut>>

Next ==
    \/ Exit
    \/ NoCommand
    \/ CmdDef
    \/ CmdLog
    \/ CmdKLog
    \/ CmdReConf
    \/ CmdSet
    \/ CmdShow
    \/ CmdFlush
    \/ CmdHelp
    \/ CmdInvalid

Spec == Init /\ [][Next]_vars

-----------------------------------------------------------------------------
(* The match predicate on its own: every short name, with every short      *)
(* residue behind its NUL in the buffer, against every short pattern.       *)

RECURSIVE SeqsUpTo(_, _)
SeqsUpTo(S, n) ==
    IF n = 0 THEN {<<>>}
    ELSE LET shorter == SeqsUpTo(S, n - 1)
         IN  shorter \cup {Append(s, c) : s \in {t \in shorter : Len(t) = n - 1}, c \in S}

NameChars == {97, 98, 65}         \* a b A
JunkChars == {97, 98}
PatternChars == {97, 98, STAR}

MatchInputs ==
    [name : SeqsUpTo(NameChars, MaxLen),
     junk : SeqsUpTo(JunkChars, MaxJunk),
     pattern : {<<>>} \cup {<<p>> : p \in SeqsUpTo(PatternChars, MaxPatLen)}]

\* The name buffer the predicate is given.
MatchBuffer(in) == in.name \o <<NUL>> \o in.junk

MatchInit ==
    /\ registry = <<>>
    /\ cmd = ""
    /\ args = <<>>
    /\ result = ""
    /\ exitCode = ""
    /\ out = <<>>
    /\ calls = <<>>
    /\ snapshot = NoSnapshot
    /\ mIn \in MatchInputs
    /\ mOut = <<>>

MatchApply ==
    /\ mOut = <<>>
    /\ mOut' = <<PrvMatchContextName(MatchBuffer(mIn), mIn.pattern)>>
    /\ UNCHANGED <<registry, cmd, args, result, exitCode, out, calls, snapshot, mIn>>

MatchNext == MatchApply

MatchSpec == MatchInit /\ [][MatchNext]_vars

-----------------------------------------------------------------------------
(* The enumeration on its own: PrvGetContextList on a registry of any number *)
(* of contexts the library may report, up to two more than                   *)
(* PMLOG_MAX_NUM_CONTEXTS, with a pattern or none.                           *)

EnumMax == PMLOG_MAX_NUM_CONTEXTS + 2

EnumNames == SeqsUpTo({97, 98}, 2) \ {<<>>}       \* a b aa ab ba bb

\* The registries of n contexts with names of S, no name twice
RECURSIVE RegistriesOf(_, _)
RegistriesOf(S, n) ==
    IF n = 0 THEN {<<>>}
    ELSE {Append(r, [name |-> nm, level |-> 3]) :
             r \in {q \in RegistriesOf(S, n - 1) : Len(q) = n - 1},
             nm \in S} \cup RegistriesOf(S, n - 1)

EnumRegistries ==
    {r \in RegistriesOf(EnumNames, EnumMax) :
        \A i, j \in 1..Len(r) : i # j => r[i].name # r[j].name}

EnumPatterns == {<<>>, <<S_star>>, <<S_aStar>>, <<S_ab>>}

EnumLibFailures ==
    {NoFail} \cup Failure("num", {1}) \cup Failure("ind", {EnumMax})
        \cup Failure("name", {EnumMax})

EnumInit ==
    /\ registry \in EnumRegistries
    /\ cmd = ""
    /\ args \in EnumPatterns
    /\ result = ""
    /\ exitCode = ""
    /\ out = <<>>
    /\ calls = <<>>
    /\ snapshot = NoSnapshot
    /\ mIn = NoMatchInput
    /\ mOut = <<>>

\* One call of PrvGetContextList(&contextInfos, matchContextName), args
\* being the pointer matchContextName.
EnumApply ==
    /\ snapshot.logErr = ""
    /\ \E lib \in EnumLibFailures :
          snapshot' \in PrvGetContextList(registry, args, lib)
    /\ UNCHANGED <<registry, cmd, args, result, exitCode, out, calls, mIn, mOut>>

EnumNext == EnumApply

EnumSpec == EnumInit /\ [][EnumNext]_vars

-----------------------------------------------------------------------------
(* What the claims speak of, said without the code's operators *)

IsPrefix(p, s) == Len(p) <= Len(s) /\ \A i \in 1..Len(p) : s[i] = p[i]

HasStar(p) == \E i \in 1..Len(p) : p[i] = STAR

\* The text of p before its first '*'
BeforeStar(p) ==
    LET first == CHOOSE i \in 1..Len(p) : p[i] = STAR /\ \A j \in 1..(i - 1) : p[j] # STAR
    IN  [j \in 1..(first - 1) |-> p[j]]

\* The reference predicate of the match: pattern is <<>> (none) or <<p>>.
RefMatch(s, pattern) ==
    IF pattern = <<>> THEN TRUE
    ELSE IF ~HasStar(pattern[1]) THEN s = pattern[1]
    ELSE BeforeStar(pattern[1]) = <<>> \/ IsPrefix(BeforeStar(pattern[1]), s)

Alias(name) == IF name = <<46>> THEN kPmLogGlobalContextName ELSE name

Registered(reg, name) == \E i \in 1..Len(reg) : reg[i].name = name

\* The registered contexts (their indices) a pattern matches
Matching(reg, pattern) == {i \in 1..Len(reg) : RefMatch(reg[i].name, pattern)}

Lower(s) == [i \in 1..Len(s) |-> IF s[i] \in 65..90 THEN s[i] + 32 ELSE s[i]]

\* a <= b in dictionary order
LexLE(a, b) ==
    \/ IsPrefix(a, b)
    \/ \E i \in 1..Len(a) :
          /\ i <= Len(b)
          /\ \A j \in 1..(i - 1) : a[j] = b[j]
          /\ a[i] < b[i]

ValidLevel(l) == \E i \in 1..Len(LevelNames) : LevelNames[i][2] = l
LevelOf(l) == LevelNames[CHOOSE i \in 1..Len(LevelNames) : LevelNames[i][2] = l][1]
NameOfLevel(v) == LevelNames[CHOOSE i \in 1..Len(LevelNames) : LevelNames[i][1] = v][2]

-----------------------------------------------------------------------------
(* Claims *)

\* C1: PrvMatchContextName(s, pattern) is the reference predicate: true for
\* no pattern; s = pattern when the pattern has no '*'; otherwise, with p the
\* text before the first '*', p is empty or s starts with p.  Whatever lies
\* in the buffer behind the name, a name shorter than p does not match, and
\* what follows the first '*' changes nothing.
C1_MatchIsReference ==
    mOut # <<>> => mOut[1] = RefMatch(mIn.name, mIn.pattern)

\* the name "a", with "b" left behind its NUL, against "ab*": no match
C1_Witness ==
    /\ mIn = [name |-> S_a, junk |-> <<98>>, pattern |-> <<S_abStar>>]
    /\ mOut = <<FALSE>>

\* C2: a wildcard set that matches N >= 1 contexts calls setContextLevel on
\* them one at a time in the order of the snapshot and stops at the first
\* failure: N calls and OK when none fails; when the k-th fails, k calls, the
\* first k-1 contexts at the new level, those after the k-th at their old
\* level, and a run error.
C2_WildcardSetStopsAtFirstFailure ==
    [][(/\ Idle
        /\ cmd' = "set"
        /\ Len(args') = 2
        /\ HasStar(Alias(args'[1]))
        /\ ValidLevel(args'[2])
        /\ Matching(registry, <<Alias(args'[1])>>) # {}
        /\ snapshot'.logErr = kPmLogErr_None)
       => LET N == Cardinality(Matching(registry, <<Alias(args'[1])>>))
              L == LevelOf(args'[2])
              k == Len(calls')
              names == SnapshotNames(snapshot')
              ctx(i) == snapshot'.contextInfos[i].context[1]
          IN  /\ snapshot'.numContexts = N
              /\ k >= 1 /\ k <= N
              /\ \A i \in 1..k :
                    /\ calls'[i].op = "set"
                    /\ calls'[i].name = names[i]
                    /\ calls'[i].level = L
              /\ \A i \in 1..(k - 1) : calls'[i].ok
              /\ calls'[k].ok => (k = N /\ result' = RESULT_OK)
              /\ ~calls'[k].ok => result' = RESULT_RUN_ERR
              /\ \A i \in 1..N :
                    /\ (i < k \/ (i = k /\ calls'[k].ok)) => registry'[ctx(i)].level = L
                    /\ i > k => registry'[ctx(i)].level = registry[ctx(i)].level
      ]_vars

\* "set * none" on three contexts, the second call failing: the third context
\* is still at another level
C2_Witness ==
    /\ cmd = "set"
    /\ args = <<S_star, S_none>>
    /\ snapshot.numContexts = 3
    /\ Len(calls) = 2
    /\ calls[1].ok /\ ~calls[2].ok
    /\ result = RESULT_RUN_ERR
    /\ registry[snapshot.contextInfos[1].context[1]].level = -1
    /\ registry[snapshot.contextInfos[3].context[1]].level = 3

\* C3: a wildcard set with a valid level on a registry that holds contexts,
\* none of which matches, ends in a run error without a setContextLevel call:
\* every level is as it was.
C3_WildcardSetNoMatch ==
    [][(/\ Idle
        /\ cmd' = "set"
        /\ Len(args') = 2
        /\ HasStar(Alias(args'[1]))
        /\ ValidLevel(args'[2])
        /\ Len(registry) >= 1
        /\ Matching(registry, <<Alias(args'[1])>>) = {})
       => /\ result' = RESULT_RUN_ERR
          /\ calls' = <<>>
          /\ registry' = registry
      ]_vars

C3_Witness ==
    /\ cmd = "set"
    /\ args = <<S_bStar, S_err>>
    /\ Len(registry) >= 2
    /\ result = RESULT_RUN_ERR
    /\ out = <<Line("No contexts matched", S_bStar, <<>>)>>
    /\ calls = <<>>

C5_ExitCode ==
    result # "" =>
        (exitCode = EXIT_SUCCESS <=> result \in {RESULT_OK, RESULT_HELP})

\* C6: when the enumeration succeeds, the snapshot holds the registered
\* contexts the pattern matches, each once and no other, in ascending order
\* of their names ignoring case.
C6_SnapshotMatchedAndSorted ==
    (cmd \in {"show", "set"} /\ snapshot.logErr = kPmLogErr_None) =>
        LET pattern == IF Len(args) >= 1 THEN <<Alias(args[1])>> ELSE <<>>
            num == snapshot.numContexts
            ctx(i) == snapshot.contextInfos[i].context
            names == SnapshotNames(snapshot)
        IN  /\ \A i \in 1..num : ctx(i) # <<>> /\ ctx(i)[1] \in 1..Len(registry)
            /\ {ctx(i)[1] : i \in 1..num} = Matching(registry, pattern)
            /\ \A i, j \in 1..num : i # j => ctx(i) # ctx(j)
            /\ \A i \in 1..num : names[i] = registry[ctx(i)[1]].name
            /\ \A i \in 1..(num - 1) : LexLE(Lower(names[i]), Lower(names[i + 1]))

\* "show" of "<global>", "PmLogCtl" and "a", registered in that order: listed
\* as "<global>", "a", "PmLogCtl"
C6_Witness ==
    /\ cmd = "show"
    /\ args = <<>>
    /\ result = RESULT_OK
    /\ [i \in 1..Len(registry) |-> registry[i].name]
          = <<kPmLogGlobalContextName, S_PmLogCtl, S_a>>
    /\ SnapshotNames(snapshot) = <<kPmLogGlobalContextName, S_a, S_PmLogCtl>>

\* C7: "show", with or without a pattern, on a registry of no contexts is a
\* run error of the enumeration and prints no not-found message; "show" with
\* a wildcard on a registry with contexts, none matching, the enumeration
\* succeeding, prints "No contexts matched '<pattern>'." and is a run error.
\* The messages differ, and both exit with failure.
C7_ShowEmptyVersusNoMatch ==
    /\ (cmd = "show" /\ Len(args) <= 1 /\ Len(registry) = 0) =>
          /\ result = RESULT_RUN_ERR
          /\ exitCode = EXIT_FAILURE
          /\ out = <<ErrorGettingContexts>>
    /\ (/\ cmd = "show" /\ Len(args) = 1 /\ HasStar(Alias(args[1]))
        /\ Len(registry) >= 1
        /\ Matching(registry, <<Alias(args[1])>>) = {}
        /\ snapshot.logErr = kPmLogErr_None) =>
          /\ result = RESULT_RUN_ERR
          /\ exitCode = EXIT_FAILURE
          /\ out = <<Line("No contexts matched", Alias(args[1]), <<>>)>>
          /\ out # <<ErrorGettingContexts>>

\* "show b*" on an empty registry
C7_Witness ==
    /\ cmd = "show"
    /\ args = <<S_bStar>>
    /\ registry = <<>>
    /\ out = <<ErrorGettingContexts>>

\* "show b*" with contexts, none matching
C7_WitnessNoMatch ==
    /\ cmd = "show"
    /\ args = <<S_bStar>>
    /\ Len(registry) >= 1
    /\ out = <<Line("No contexts matched", S_bStar, <<>>)>>
    /\ result = RESULT_RUN_ERR

\* C8: "log context level msg" whose context name, the alias resolved, is the
\* name of no context is a parameter error and emits nothing, whatever the
\* level and the message; a name with a '*' is looked up as it stands.
C8_LogUnknownContext ==
    (cmd = "log" /\ Len(args) >= 2 /\ ~Registered(registry, Alias(args[1]))) =>
        /\ result = RESULT_PARAM_ERR
        /\ exitCode = EXIT_FAILURE
        /\ calls = <<>>
        /\ out[1] = Line("Invalid context", args[1], <<>>)

\* "log a* err hi" with "a" and "ab" registered
C8_Witness ==
    /\ cmd = "log"
    /\ args = <<S_aStar, S_err, S_hi>>
    /\ Registered(registry, S_a) /\ Registered(registry, S_ab)
    /\ result = RESULT_PARAM_ERR
    /\ calls = <<>>

\* C9: "def context [level]" whose name, the alias resolved, is registered
\* fails and calls neither get-or-create nor setContextLevel: the contexts
\* and their levels are as they were, a valid level given or not.
C9_DefExisting ==
    [][(/\ Idle
        /\ cmd' = "def"
        /\ Len(args') >= 1
        /\ Registered(registry, Alias(args'[1])))
       => /\ result' \in {RESULT_PARAM_ERR, RESULT_RUN_ERR}
          /\ exitCode' = EXIT_FAILURE
          /\ calls' = <<>>
          /\ registry' = registry
      ]_vars

\* "def . none" with "<global>" registered at level err
C9_Witness ==
    /\ cmd = "def"
    /\ args = <<S_dot, S_none>>
    /\ result = RESULT_PARAM_ERR
    /\ out[1] = Line("Context is already defined", kPmLogGlobalContextName, <<>>)
    /\ \E i \in 1..Len(registry) :
          registry[i] = [name |-> kPmLogGlobalContextName, level |-> 3]

\* C10: a run of set, def, log, klog or reconf that ends in a parameter error
\* has made no call that changes anything (setContextLevel, get-or-create,
\* emit, kernel message write): the registry is as before the run.
C10_ParamErrorChangesNothing ==
    [][(/\ Idle
        /\ cmd' \in {"set", "def", "log", "klog", "reconf"}
        /\ result' = RESULT_PARAM_ERR)
       => /\ calls' = <<>>
          /\ registry' = registry
      ]_vars

\* "set * err hi" with two contexts: the extra argument comes after a pattern
\* and a level that are fine
C10_Witness ==
    /\ cmd = "set"
    /\ args = <<S_star, S_err, S_hi>>
    /\ Len(registry) >= 2
    /\ \E i \in 1..Len(registry) : registry[i].level # 3
    /\ result = RESULT_PARAM_ERR
    /\ calls = <<>>

\* C11: in an enumeration, whatever number of contexts the library reports
\* and whatever the pattern, the snapshot holds no more entries than it has
\* slots (PMLOG_MAX_NUM_CONTEXTS + 1), no slot is written but the slots
\* 0..capacity-1, and when more contexts match than fit the enumeration ends
\* with an error.
C11_SnapshotWithinCapacity ==
    snapshot.logErr # "" =>
        /\ snapshot.numContexts <= PMLOG_MAX_NUM_CONTEXTS + 1
        /\ ~snapshot.oob
        /\ Cardinality(Matching(registry, args)) > PMLOG_MAX_NUM_CONTEXTS + 1
              => snapshot.logErr # kPmLogErr_None

====
